---- MODULE Spec2Model ----
(***************************************************************************)
(* Model of import_modpack.py: one invocation of the script ("a run") is   *)
(* a sequence of steps over the target directory's filesystem: load the    *)
(* manifest and filter the mods by role, prune the mods directory, call    *)
(* download_file for every desired mod in order, then synchronize and run  *)
(* the Forge installer.  An uncaught Python exception ends the run         *)
(* (pc = "aborted").  The network (requests.get) and the installer         *)
(* process (subprocess.call) are the nondeterministic environment.         *)
(***************************************************************************)
EXTENDS Naturals, Sequences, FiniteSets, TLC

VARIABLES
    modpack,    \* the parsed manifest: [forge |-> spec, mods |-> sequence of specs]
    arguments,  \* [server, client, preserve]: the parsed command line
    fs,         \* the target directory: path |-> [type, bytes]
    mods,       \* the script's variable `mods` (the desired mods, filtered by role)
    i,          \* position of the download loop in `mods` (next index to process)
    pc,         \* position of the script
    error,      \* the uncaught exception that ended the run, or None
    log,        \* what the current run has done so far (filesystem, network, output)
    fs0,        \* the target directory as the current run found it
    run         \* number of the current invocation of the script

vars == <<modpack, arguments, fs, mods, i, pc, error, log, fs0, run>>

-----------------------------------------------------------------------------
(* Bounds *)

MaxMods == 2        \* longest mod list of a manifest
MaxInitFiles == 1   \* most entries present in the target directory before the first run
MaxRuns == 2        \* invocations of the script, one after the other

-----------------------------------------------------------------------------
(* Values *)

None == "<None>"    \* Python's None; also a key that the JSON object does not have

\* Python truthiness of an optional string (`if digest:`, `spec.get('source')`);
\* the flags disabled, client and server are booleans, FALSE when the key is missing
Truthy(v) == v # None /\ v # ""

Bytes == {"b1", "b2"}       \* file contents a server or the disk may hold
ErrorPage == "404-page"     \* body of a non-success HTTP response

\* hashlib.sha256(file).hexdigest(): collision-free on the contents of the model
sha256(b) == "sha256:" \o b

\* hashlib.sha256(source.encode('utf-8')).hexdigest()[:6] of the model's URLs
Fingerprint(source) ==
    CASE source = "http://x/a.jar" -> "8bd9c5"
      [] source = "http://x/b.jar" -> "b93de2"
      [] source = "http://x/forge.jar" -> "24f17c"

File(b) == [type |-> "file", bytes |-> b]
Dir == [type |-> "dir", bytes |-> None]

\* os.path.join('mods', name) and a name relative to the working directory
ModPath(name) == <<"mods", name>>
TopPath(name) == <<".", name>>

ForgeInstaller == TopPath("forge-installer.jar")
ForgeServer == TopPath("forge-server.jar")
\* the names the pattern 'forge-*-universal.jar' can match in the model
UniversalJars == {TopPath("forge-1-universal.jar"), TopPath("forge-2-universal.jar")}

\* an entry of the log: an operation, the path (or URL) it acts on, and a detail
Event(op, at, info) == [op |-> op, at |-> at, info |-> info, src |-> None]
Url(source) == <<"url", source>>
Stdout == <<"", "stdout">>
\* a call of download_file with its arguments
CallEvent(source, destination, digest) ==
    [op |-> "download_file", at |-> destination, info |-> digest, src |-> source]

-----------------------------------------------------------------------------
(* Filesystem primitives *)

exists(f, p) == p \in DOMAIN f
isdir(f, p) == p \in DOMAIN f /\ f[p].type = "dir"
listdir_mods(f) == {p[2] : p \in {q \in DOMAIN f : q[1] = "mods"}}
glob_universal(f) == DOMAIN f \cap UniversalJars
write(f, p, b) == [q \in DOMAIN f \cup {p} |-> IF q = p THEN File(b) ELSE f[q]]
remove(f, ps) == [q \in DOMAIN f \ ps |-> f[q]]
rename(f, src, dst) ==
    [q \in (DOMAIN f \ {src}) \cup {dst} |-> IF q = dst THEN f[src] ELSE f[q]]

-----------------------------------------------------------------------------
(* The functions of the script *)

\* a validation that reports the digest but never rejects
validate_file_lenient(file, digest) ==
    LET file_digest == sha256(file) IN
    IF Truthy(digest)
    THEN [exc |-> None, ev |-> <<>>]
    ELSE [exc |-> None, ev |-> <<Event("print", Stdout, file_digest)>>]

validate_file(file, digest) ==
    LET file_digest == sha256(file) IN
    IF Truthy(digest)
    THEN IF file_digest # digest
         THEN [exc |-> "ValueError", ev |-> <<>>]
         ELSE [exc |-> None, ev |-> <<>>]
    ELSE [exc |-> None, ev |-> <<Event("print", Stdout, file_digest)>>]

\* a filename that leaves the version out
generate_mod_filename_noversion(spec) ==
    LET tag == IF Truthy(spec.source) THEN Fingerprint(spec.source) ELSE "<stub>"
        base == IF spec.name # None THEN spec.name \o "-" \o tag ELSE tag
    IN  base \o (IF ~spec.disabled THEN ".jar" ELSE ".jar.disabled")

\* lines 63-83.  `name is not tag` holds exactly when the key `name` is there:
\* a name read from JSON is never the object `tag`, even when it is equal to it
generate_mod_filename(spec) ==
    LET tag == IF Truthy(spec.source) THEN Fingerprint(spec.source) ELSE "<stub>"
        version == spec.version
        base == IF spec.name # None
                THEN spec.name \o (IF Truthy(version) THEN "-" \o version \o "-" ELSE "-") \o tag
                ELSE tag
    IN  base \o (IF ~spec.disabled THEN ".jar" ELSE ".jar.disabled")

\* a download_file that writes the fetched bytes before it validates them
download_file_writefirst(source, destination, digest, f, resp) ==
    LET called == <<CallEvent(source, destination, digest)>> IN
    IF ~Truthy(source)
    THEN [fs |-> f, exc |-> None,
          ev |-> called \o <<Event("print", destination, "[-]")>>]
    ELSE IF exists(f, destination)
    THEN IF f[destination].type = "dir"
         THEN [fs |-> f, exc |-> "IsADirectoryError",
               ev |-> called \o <<Event("print", destination, "[o]")>>]
         ELSE LET v == validate_file(f[destination].bytes, digest) IN
              [fs |-> f, exc |-> v.exc,
               ev |-> called \o <<Event("print", destination, "[o]"),
                                  Event("read", destination, "")>> \o v.ev]
    ELSE LET started == called \o
                        <<Event("print", destination, "[v]"),
                          Event("get", Url(source),
                                IF resp.exc # None THEN resp.exc ELSE resp.status)>>
         IN  IF resp.exc = "HTTPError"
             THEN [fs |-> f, exc |-> resp.exc,
                   ev |-> started \o <<Event("print", destination, "[x]")>>]
             ELSE IF resp.exc # None
             THEN [fs |-> f, exc |-> resp.exc, ev |-> started]
             ELSE LET v == validate_file(resp.content, digest) IN
                  [fs |-> write(f, destination, resp.content), exc |-> v.exc,
                   ev |-> started \o <<Event("write", destination, resp.content)>>
                                  \o v.ev]

\* a download_file that does not look whether the destination exists
download_file_overwrite(source, destination, digest, f, resp) ==
    LET called == <<CallEvent(source, destination, digest)>> IN
    IF ~Truthy(source)
    THEN [fs |-> f, exc |-> None,
          ev |-> called \o <<Event("print", destination, "[-]")>>]
    ELSE LET started == called \o
                        <<Event("print", destination, "[v]"),
                          Event("get", Url(source),
                                IF resp.exc # None THEN resp.exc ELSE resp.status)>>
         IN  IF resp.exc = "HTTPError"
             THEN [fs |-> f, exc |-> resp.exc,
                   ev |-> started \o <<Event("print", destination, "[x]")>>]
             ELSE IF resp.exc # None
             THEN [fs |-> f, exc |-> resp.exc, ev |-> started]
             ELSE LET v == validate_file(resp.content, digest) IN
                  IF v.exc # None
                  THEN [fs |-> f, exc |-> v.exc, ev |-> started \o v.ev]
                  ELSE [fs |-> write(f, destination, resp.content), exc |-> None,
                        ev |-> started \o v.ev
                                  \o <<Event("write", destination, resp.content)>>]

\* resp is what requests.get(source) does when it is called; "[v]" stands for
\* the down-arrow marker of line 107.  open() of a directory raises
\* IsADirectoryError.  requests.get returns a response whatever its status
\* (raise_for_status is not called); the handler of lines 113-115 sees an
\* exception only if it is a requests.HTTPError.
download_file(source, destination, digest, f, resp) ==
    LET called == <<CallEvent(source, destination, digest)>> IN
    IF ~Truthy(source)
    THEN [fs |-> f, exc |-> None,
          ev |-> called \o <<Event("print", destination, "[-]")>>]
    ELSE IF exists(f, destination)
    THEN IF f[destination].type = "dir"
         THEN [fs |-> f, exc |-> "IsADirectoryError",
               ev |-> called \o <<Event("print", destination, "[o]")>>]
         ELSE LET v == validate_file(f[destination].bytes, digest) IN
              [fs |-> f, exc |-> v.exc,
               ev |-> called \o <<Event("print", destination, "[o]"),
                                  Event("read", destination, "")>> \o v.ev]
    ELSE LET started == called \o
                        <<Event("print", destination, "[v]"),
                          Event("get", Url(source),
                                IF resp.exc # None THEN resp.exc ELSE resp.status)>>
         IN  IF resp.exc = "HTTPError"
             THEN [fs |-> f, exc |-> resp.exc,
                   ev |-> started \o <<Event("print", destination, "[x]")>>]
             ELSE IF resp.exc # None
             THEN [fs |-> f, exc |-> resp.exc, ev |-> started]
             ELSE LET v == validate_file(resp.content, digest) IN
                  IF v.exc # None
                  THEN [fs |-> f, exc |-> v.exc, ev |-> started \o v.ev]
                  ELSE [fs |-> write(f, destination, resp.content), exc |-> None,
                        ev |-> started \o v.ev
                                  \o <<Event("write", destination, resp.content)>>]

-----------------------------------------------------------------------------
(* Inputs *)

Spec_(source, name, version, disabled, digest, client, server) ==
    [source |-> source, name |-> name, version |-> version, disabled |-> disabled,
     digest |-> digest, client |-> client, server |-> server]

\* the mod entries manifests are built from: a named and versioned mod without
\* digest, a client-only placeholder (no source) that declares a digest, and
\* a server-only, disabled, unnamed mod with a digest
ModEntries ==
    { Spec_("http://x/a.jar", "Foo", "1.0", FALSE, None, FALSE, FALSE),
      Spec_(None, "Stub", None, FALSE, sha256("b1"), TRUE, FALSE),
      Spec_("http://x/b.jar", None, None, TRUE, sha256("b2"), FALSE, TRUE) }

\* the installer entry: with source and digest, or missing
ForgeEntries ==
    { Spec_("http://x/forge.jar", None, "14.23", FALSE, sha256("b1"), FALSE, FALSE),
      Spec_(None, None, None, FALSE, None, FALSE, FALSE) }

SeqsUpTo(S, n) == UNION {[1..k -> S] : k \in 0..n}

Manifests == [forge : ForgeEntries, mods : SeqsUpTo(ModEntries, MaxMods)]

Arguments ==
    {a \in [server : BOOLEAN, client : BOOLEAN, preserve : BOOLEAN] :
        ~(a.server /\ a.client)}

\* what may lie in the target directory before the first run
InitNames ==
    {ModPath(generate_mod_filename(m)) : m \in ModEntries}
        \cup {ModPath("Old-abc123.jar")}
InitEntries(p) ==
    IF p[1] = "mods" THEN {File(b) : b \in Bytes} \cup {Dir}
    ELSE IF p = ForgeInstaller THEN {File(b) : b \in Bytes}
    ELSE {File("b1")}
InitPaths == InitNames \cup {ForgeInstaller, TopPath("forge-1-universal.jar")}
InitFilesystems ==
    UNION { {f \in [D -> [type : {"file", "dir"}, bytes : Bytes \cup {None}]] :
                \A p \in D : f[p] \in InitEntries(p)} :
            D \in {D \in SUBSET InitPaths : Cardinality(D) <= MaxInitFiles} }

\* what requests.get may do: a response (whatever its status) or an exception
Responses ==
    {[exc |-> None, status |-> "200", content |-> b] : b \in Bytes}
        \cup {[exc |-> None, status |-> "404", content |-> ErrorPage]}
        \cup {[exc |-> e, status |-> None, content |-> None] :
                e \in {"ConnectionError", "HTTPError"}}

-----------------------------------------------------------------------------
(* The script *)

Init ==
    /\ modpack \in Manifests
    /\ arguments \in Arguments
    /\ fs \in InitFilesystems
    /\ mods = <<>>
    /\ i = 1
    /\ pc = "start"
    /\ error = None
    /\ log = <<>>
    /\ fs0 = fs
    /\ run = 1

\* a filter that keeps the flagged mods instead of dropping them
FilterOut_inverted(s, flag) ==
    LET F[k \in 0..Len(s)] ==
            IF k = 0 THEN <<>>
            ELSE IF s[k][flag] THEN Append(F[k-1], s[k]) ELSE F[k-1]
    IN  F[Len(s)]

\* [mod for mod in s if not mod.get(flag)]
FilterOut(s, flag) ==
    LET F[k \in 0..Len(s)] ==
            IF k = 0 THEN <<>>
            ELSE IF ~s[k][flag] THEN Append(F[k-1], s[k]) ELSE F[k-1]
    IN  F[Len(s)]

\* lines 121-140: load the manifest, make sure mods/ exists, filter by role.
\* A missing mods/ is created empty, which in fs is the same as an empty one.
LoadAndFilter ==
    /\ pc = "start"
    /\ mods' = IF arguments.server
               THEN FilterOut(modpack.mods, "client")
               ELSE FilterOut(modpack.mods, "server")
    /\ pc' = "prune"
    /\ i' = 1
    /\ UNCHANGED <<modpack, arguments, fs, error, log, fs0, run>>

SeqRange(s) == {s[k] : k \in 1..Len(s)}

\* a fixed order of a set of paths, for the log
RECURSIVE SetToSeq(_)
SetToSeq(S) ==
    IF S = {} THEN <<>>
    ELSE LET x == CHOOSE y \in S : TRUE IN <<x>> \o SetToSeq(S \ {x})

\* a prune whose membership test is inverted
Obsolete_inverted(f, ms) ==
    {ModPath(mod) : mod \in
        {n \in listdir_mods(f) :
            /\ n \in {generate_mod_filename(el) : el \in SeqRange(ms)}
            /\ ~isdir(f, ModPath(n))}}

\* a prune that only keeps the files of the mods that have a source
Obsolete_sourcedonly(f, ms) ==
    {ModPath(mod) : mod \in
        {n \in listdir_mods(f) :
            /\ n \notin {generate_mod_filename(el) :
                            el \in {x \in SeqRange(ms) : Truthy(x.source)}}
            /\ ~isdir(f, ModPath(n))}}

\* a prune that does not spare directories
Obsolete_withdirs(f, ms) ==
    {ModPath(mod) : mod \in
        {n \in listdir_mods(f) :
            n \notin {generate_mod_filename(el) : el \in SeqRange(ms)}}}

\* the entries of mods/ the prune loop removes (line 145)
Obsolete(f, ms) ==
    {ModPath(mod) : mod \in
        {n \in listdir_mods(f) :
            /\ n \notin {generate_mod_filename(el) : el \in SeqRange(ms)}
            /\ ~isdir(f, ModPath(n))}}

\* lines 142-146
Prune ==
    /\ pc = "prune"
    /\ IF ~arguments.preserve
       THEN /\ fs' = remove(fs, Obsolete(fs, mods))
            /\ log' = log \o [k \in 1..Cardinality(Obsolete(fs, mods)) |->
                                Event("remove", SetToSeq(Obsolete(fs, mods))[k], "")]
       ELSE UNCHANGED <<fs, log>>
    /\ pc' = "sync"
    /\ UNCHANGED <<modpack, arguments, mods, i, error, fs0, run>>

\* an exception that is swallowed: the script stays where it is
Raise_swallowed(exc) ==
    /\ pc' = pc
    /\ error' = exc

\* an exception that sends the script back to the download loop
Raise_retry(exc) ==
    /\ pc' = "sync"
    /\ error' = None

\* an uncaught exception ends the script
Raise(exc) ==
    /\ pc' = "aborted"
    /\ error' = exc

\* lines 148-151: one iteration of the download loop
SyncMod ==
    /\ pc = "sync"
    /\ i <= Len(mods)
    /\ \E resp \in Responses :
        LET mod == mods[i]
            r == download_file(mod.source, ModPath(generate_mod_filename(mod)),
                               mod.digest, fs, resp)
        IN  /\ fs' = r.fs
            /\ log' = log \o r.ev
            /\ IF r.exc # None
               THEN Raise(r.exc) /\ UNCHANGED i
               ELSE i' = i + 1 /\ UNCHANGED <<pc, error>>
    /\ UNCHANGED <<modpack, arguments, mods, fs0, run>>

\* line 154: the installer is synchronized when a role is given
ForgeWanted(a) == a.server \/ a.client

\* an installer step that does not look at the role
InstallWanted_anyrole(a, f) == exists(f, ForgeInstaller)

\* line 160: the installer is run for a server, when the installer file is there
InstallWanted(a, f) == a.server /\ exists(f, ForgeInstaller)

\* an installer step that does not wait for the download loop to end
SyncForge_early ==
    /\ pc = "sync"
    /\ IF ForgeWanted(arguments)
       THEN \E resp \in Responses :
            LET forge == modpack.forge
                r == download_file(forge.source, ForgeInstaller, forge.digest, fs, resp)
            IN  /\ fs' = r.fs
                /\ log' = log \o r.ev
                /\ IF r.exc # None
                   THEN Raise(r.exc)
                   ELSE /\ pc' = IF InstallWanted(arguments, r.fs)
                                 THEN "install" ELSE "finish"
                        /\ UNCHANGED error
       ELSE /\ pc' = "finish"
            /\ UNCHANGED <<fs, log, error>>
    /\ UNCHANGED <<modpack, arguments, mods, i, fs0, run>>

\* lines 153-157: the loop is over; synchronize the installer when a role is given
SyncForge ==
    /\ pc = "sync"
    /\ i > Len(mods)
    /\ IF ForgeWanted(arguments)
       THEN \E resp \in Responses :
            LET forge == modpack.forge
                r == download_file(forge.source, ForgeInstaller, forge.digest, fs, resp)
            IN  /\ fs' = r.fs
                /\ log' = log \o r.ev
                /\ IF r.exc # None
                   THEN Raise(r.exc)
                   ELSE /\ pc' = IF InstallWanted(arguments, r.fs)
                                 THEN "install" ELSE "finish"
                        /\ UNCHANGED error
       ELSE /\ pc' = "finish"
            /\ UNCHANGED <<fs, log, error>>
    /\ UNCHANGED <<modpack, arguments, mods, i, fs0, run>>

\* line 164
Finish ==
    /\ pc = "finish"
    /\ pc' = "done"
    /\ log' = Append(log, Event("print", Stdout, "Modpack imported"))
    /\ UNCHANGED <<modpack, arguments, fs, mods, i, error, fs0, run>>

\* what subprocess.call(['java', '-jar', 'forge-installer.jar', '--installServer'])
\* may do: raise (no java), or return an exit status after the installer has
\* written any of the files the universal-jar pattern matches
InstallerOutcomes ==
    {[exc |-> "OSError", status |-> 0, made |-> {}]}
        \cup [exc : {None}, status : {0, 1}, made : SUBSET UniversalJars]

RECURSIVE WriteAll(_, _, _)
WriteAll(f, ps, b) ==
    IF ps = {} THEN f
    ELSE LET p == CHOOSE q \in ps : TRUE IN WriteAll(write(f, p, b), ps \ {p}, b)

\* lines 160-162: run the installer; its exit status is not looked at (the
\* log keeps it: "0", "1", or the exception that subprocess.call raised)
Install ==
    /\ pc = "install"
    /\ \E out \in InstallerOutcomes :
        /\ log' = Append(log, Event("call", ForgeInstaller,
                                    IF out.exc # None THEN out.exc
                                    ELSE ToString(out.status)))
        /\ IF out.exc # None
           THEN Raise(out.exc) /\ UNCHANGED fs
           ELSE /\ fs' = WriteAll(fs, out.made, "b1")
                /\ pc' = "rename"
                /\ UNCHANGED error
    /\ UNCHANGED <<modpack, arguments, mods, i, fs0, run>>

\* line 163: glob.glob returns the matches in the directory's arbitrary order,
\* [0] is any one of them, and IndexError when there is none
RenameOutput ==
    /\ pc = "rename"
    /\ IF glob_universal(fs) = {}
       THEN Raise("IndexError") /\ UNCHANGED <<fs, log>>
       ELSE \E first \in glob_universal(fs) :
            /\ fs' = rename(fs, first, ForgeServer)
            /\ log' = Append(log, Event("rename", first, "forge-server.jar"))
            /\ pc' = "finish"
            /\ UNCHANGED error
    /\ UNCHANGED <<modpack, arguments, mods, i, fs0, run>>

\* the script is invoked again with the same command line and manifest, on the
\* directory the completed run has left
NextRun ==
    /\ pc = "done"
    /\ run < MaxRuns
    /\ run' = run + 1
    /\ pc' = "start"
    /\ mods' = <<>>
    /\ i' = 1
    /\ log' = <<>>
    /\ fs0' = fs
    /\ UNCHANGED <<modpack, arguments, fs, error>>

Next ==
    \/ LoadAndFilter
    \/ Prune
    \/ SyncMod
    \/ SyncForge
    \/ Install
    \/ RenameOutput
    \/ Finish
    \/ NextRun

Spec == Init /\ [][Next]_vars

-----------------------------------------------------------------------------
(* Vocabulary of the properties *)

\* names of the entries of mods/ that are not directories, and that are
NonDirNames(f) == {n \in listdir_mods(f) : ~isdir(f, ModPath(n))}
DirNames(f) == {n \in listdir_mods(f) : isdir(f, ModPath(n))}

\* derived filenames of the mods desired for the active role
DesiredNames == {generate_mod_filename(m) : m \in SeqRange(mods)}
SourcedNames == {generate_mod_filename(m) : m \in {x \in SeqRange(mods) : Truthy(x.source)}}
PlaceholderNames ==
    {generate_mod_filename(m) : m \in {x \in SeqRange(mods) : ~Truthy(x.source)}}

Ops(op) == {k \in 1..Len(log) : log[k].op = op}

-----------------------------------------------------------------------------
(* C1 *)

\* C1 as stated: after a run that completes with pruning enabled, the
\* non-directory entries of mods/ are exactly the derived filenames of the
\* desired mods (placeholder entries included), and the subdirectories are
\* the ones the run found.
C1_PruneExact ==
    (pc = "done" /\ ~arguments.preserve) =>
        /\ NonDirNames(fs) = DesiredNames
        /\ DirNames(fs) = DirNames(fs0)

\* C1, amended: after a run that completes with pruning enabled, the
\* non-directory entries of mods/ are exactly the derived filenames of the
\* desired mods that have a source, together with those of the desired
\* placeholder entries whose file was already there when the run started;
\* the subdirectories are the ones the run found.
C1_PruneExactButPlaceholders ==
    (pc = "done" /\ ~arguments.preserve) =>
        /\ NonDirNames(fs) = SourcedNames \cup (PlaceholderNames \cap NonDirNames(fs0))
        /\ DirNames(fs) = DirNames(fs0)
        /\ \A n \in DirNames(fs) : fs[ModPath(n)] = fs0[ModPath(n)]

\* a completed pruning run that removed a file, fetched one, and left a
\* desired placeholder without a file
C1_Witness ==
    /\ pc = "done" /\ ~arguments.preserve
    /\ Ops("remove") # {} /\ Ops("write") # {}
    /\ PlaceholderNames \ NonDirNames(fs) # {}

-----------------------------------------------------------------------------
(* A step that is a call of download_file, seen in the log *)

Called == Len(log') > Len(log) /\ log'[Len(log) + 1].op = "download_file"
TheCall == log'[Len(log) + 1]
NewEvents == SubSeq(log', Len(log) + 1, Len(log'))
NewOps(op) == {k \in 1..Len(NewEvents) : NewEvents[k].op = op}

\* the call of download_file that the k-th entry of the log belongs to
CallOf(k) ==
    log[CHOOSE j \in Ops("download_file") :
            j < k /\ \A l \in Ops("download_file") : l < k => l <= j]
LastCall == CallOf(Len(log) + 1)

-----------------------------------------------------------------------------
(* C2 *)

DigestMismatchOnDisk ==
    /\ Called
    /\ exists(fs, TheCall.at) /\ fs[TheCall.at].type = "file"
    /\ Truthy(TheCall.info)
    /\ sha256(fs[TheCall.at].bytes) # TheCall.info

RejectedUntouched ==
    /\ pc' = "aborted" /\ error' = "ValueError"
    /\ NewOps("get") = {}
    /\ fs' = fs

\* C2 as stated: whenever download_file is called for a destination file
\* whose digest differs from the digest the entry declares, the call fails
\* with the integrity error (ValueError), fetches nothing and leaves the
\* filesystem as it was.
C2_MismatchAlwaysFails ==
    [][DigestMismatchOnDisk => RejectedUntouched]_vars

\* C2, amended: the same for an entry that has a source.
C2_MismatchFailsWhenSourced ==
    [][(DigestMismatchOnDisk /\ Truthy(TheCall.src)) => RejectedUntouched]_vars

\* a run that ended in the integrity error right after reading an existing file
C2_Witness ==
    /\ pc = "aborted" /\ error = "ValueError"
    /\ log # <<>> /\ log[Len(log)].op = "read"
    /\ Truthy(LastCall.src) /\ Truthy(LastCall.info)
    /\ fs[LastCall.at].type = "file" /\ sha256(fs[LastCall.at].bytes) # LastCall.info

-----------------------------------------------------------------------------
(* C3 *)

\* C3 as stated: a transfer that ends in anything but success (an exception
\* of requests.get, or a response whose status is not a success) makes the
\* call fail with a fetch error, prints the [x] marker for the destination,
\* and leaves no file at the destination.
C3_FetchFailureReported ==
    [][(Called /\ \E k \in NewOps("get") : NewEvents[k].info # "200") =>
          /\ pc' = "aborted" /\ error' \in {"ConnectionError", "HTTPError"}
          /\ \E k \in NewOps("print") :
                NewEvents[k].at = TheCall.at /\ NewEvents[k].info = "[x]"
          /\ ~exists(fs', TheCall.at)]_vars

-----------------------------------------------------------------------------
(* C4 *)

\* C4: in every state of a run, every file the run has written is on disk
\* with the bytes written, and when the entry it was written for declares a
\* digest, that is the digest of the bytes; a run that stopped because
\* fetched bytes did not match has no file at that destination.
C4_CreatedFilesValid ==
    /\ \A k \in Ops("write") :
          /\ exists(fs, log[k].at)
          /\ fs[log[k].at] = File(log[k].info)
          /\ Truthy(CallOf(k).info) => sha256(fs[log[k].at].bytes) = CallOf(k).info
    /\ (pc = "aborted" /\ error = "ValueError" /\ log[Len(log)].op = "get")
          => ~exists(fs, LastCall.at)

\* a run that wrote a file for an entry with a digest and then stopped
\* because the bytes fetched for a later entry did not match
C4_Witness ==
    /\ pc = "aborted" /\ error = "ValueError" /\ log[Len(log)].op = "get"
    /\ \E k \in Ops("write") : Truthy(CallOf(k).info)

-----------------------------------------------------------------------------
(* C5 *)

\* C5: a call of download_file whose destination exists fetches nothing and
\* changes nothing; every call either changes nothing without reading, or
\* reads the existing file and changes nothing, or creates the destination
\* (which did not exist) and touches no other entry.
C5_ExistingNeverRefetched ==
    [][Called =>
          /\ exists(fs, TheCall.at) => (fs' = fs /\ NewOps("get") = {})
          /\ ~(NewOps("read") # {} /\ NewOps("write") # {})
          /\ NewOps("write") = {} => fs' = fs
          /\ NewOps("write") # {} =>
                /\ ~exists(fs, TheCall.at)
                /\ DOMAIN fs' = DOMAIN fs \cup {TheCall.at}
                /\ \A p \in DOMAIN fs : fs'[p] = fs[p]]_vars

\* two calls in a row with the same entry and destination: the first created
\* the file, the second read it
C5_Witness ==
    \E j, k \in Ops("download_file") :
        /\ j < k /\ log[j] = log[k]
        /\ \A l \in Ops("download_file") : ~(j < l /\ l < k)
        /\ \E w \in Ops("write") : j < w /\ w < k /\ log[w].at = log[j].at
        /\ \E r \in Ops("read") : k < r /\ log[r].at = log[k].at

-----------------------------------------------------------------------------
(* C6 *)

\* the files of mods/ at the derived paths of the given entries are, after
\* the step, what they were before it
PathsKept(entries) ==
    \A m \in entries :
        LET p == ModPath(generate_mod_filename(m)) IN
        IF exists(fs, p) THEN exists(fs', p) /\ fs'[p] = fs[p] ELSE ~exists(fs', p)

\* the log has no read, write or removal at the derived paths of the entries
PathsUntouched(entries) ==
    \A k \in 1..Len(log) :
        log[k].op \in {"read", "write", "remove"} =>
            log[k].at \notin {ModPath(generate_mod_filename(m)) : m \in entries}

\* a call of download_file without a source does nothing and does not fail
SourcelessCallIsSkip ==
    (Called /\ ~Truthy(TheCall.src)) =>
        /\ fs' = fs
        /\ pc' # "aborted" /\ error' = error
        /\ NewOps("get") = {} /\ NewOps("read") = {} /\ NewOps("write") = {}

Placeholders(ms) == {m \in SeqRange(ms) : ~Truthy(m.source)}

\* C6 as stated: for every entry of the manifest that has no source, in
\* every step of a run: synchronizing it fetches nothing, touches no file and
\* does not fail, and the file at its derived path is never read, written,
\* created or deleted (pruning included).
C6_PlaceholderNeverTouched ==
    [][/\ SourcelessCallIsSkip
       /\ PathsKept(Placeholders(modpack.mods))
       /\ PathsUntouched(Placeholders(modpack.mods))']_vars

\* C6, amended: the same for every entry without a source that is desired
\* for the active role (an entry excluded for the role is not in `mods`, and
\* pruning deletes the file under its derived filename like any other
\* obsolete file).
C6_DesiredPlaceholderNeverTouched ==
    [][/\ SourcelessCallIsSkip
       /\ PathsKept(Placeholders(mods))
       /\ PathsUntouched(Placeholders(mods))']_vars

\* a completed pruning run that synchronized a desired placeholder whose file
\* was there before the run and is still there
C6_Witness ==
    /\ pc = "done" /\ ~arguments.preserve
    /\ \E m \in Placeholders(mods) :
        LET p == ModPath(generate_mod_filename(m)) IN
        /\ exists(fs0, p) /\ exists(fs, p) /\ fs[p] = fs0[p]
        /\ \E k \in Ops("download_file") : log[k].at = p /\ ~Truthy(log[k].src)

-----------------------------------------------------------------------------
(* C7 *)

ActiveRole == IF arguments.server THEN "Server" ELSE "Client"
\* the manifest flag `client` marks a client-only mod (excluded for Server),
\* the flag `server` a server-only mod (excluded for Client)
ExcludedFor(m, role) == IF role = "Server" THEN m.client ELSE m.server
Desired(m) == ~ExcludedFor(m, ActiveRole)

\* C7: once the filter has run, `mods` is the manifest's mod sequence, in
\* order, without the entries excluded for the active role, where a run with
\* no role selected filters as Client does.
C7_DesiredByRole ==
    pc # "start" => mods = SelectSeq(modpack.mods, Desired)

\* a run with no role selected whose filter dropped a server-only mod and
\* kept another mod
C7_Witness ==
    /\ pc = "prune"
    /\ ~arguments.server /\ ~arguments.client
    /\ mods # <<>> /\ Len(mods) < Len(modpack.mods)

-----------------------------------------------------------------------------
(* C8 *)

TopLevel(f) == {p \in DOMAIN f : p[1] = "."}

\* C8: a failure ends the run at once and for good; when the run ended in
\* the synchronization of a mod, the calls of download_file made are those
\* for the mods up to the failing one, the installer was not synchronized,
\* run or renamed, and every file written before is on disk as written.
C8_FailFast ==
    /\ [](error # None => pc = "aborted")
    /\ [][pc = "aborted" => UNCHANGED vars]_vars
    /\ []((pc = "aborted" /\ LastCall.at[1] = "mods") =>
            /\ \A k \in Ops("download_file") : log[k].at[1] = "mods"
            /\ Cardinality(Ops("download_file")) <= Len(mods)
            /\ mods[Cardinality(Ops("download_file"))].source = LastCall.src
            /\ Ops("call") = {} /\ Ops("rename") = {}
            /\ TopLevel(fs) = TopLevel(fs0)
            /\ \A k \in Ops("write") :
                  exists(fs, log[k].at) /\ fs[log[k].at] = File(log[k].info))

\* a run that wrote the file of its first mod and failed on its second
C8_Witness ==
    /\ pc = "aborted" /\ LastCall.at[1] = "mods"
    /\ Cardinality(Ops("download_file")) = 2
    /\ Ops("write") # {}
    /\ Len(mods) >= 2

-----------------------------------------------------------------------------
(* C9 *)

\* C9 as stated: an installer output is renamed only when exactly one file
\* matches the pattern; with no candidate or more than one the run fails
\* and renames nothing.
C9_ExactlyOneCandidate ==
    [][/\ NewOps("rename") # {} => Cardinality(glob_universal(fs)) = 1
       /\ (pc = "rename" /\ Cardinality(glob_universal(fs)) # 1) =>
             (pc' = "aborted" /\ fs' = fs)]_vars

-----------------------------------------------------------------------------
(* C10 *)

\* C10: the installer is synchronized only when a role is selected, the
\* installer process is run and its output renamed only for Server; a run
\* with no role leaves the top level of the target directory as it found it.
C10_InstallerOnlyForRoles ==
    /\ \A k \in Ops("download_file") :
          log[k].at = ForgeInstaller => (arguments.server \/ arguments.client)
    /\ (Ops("call") # {} \/ Ops("rename") # {}) => arguments.server
    /\ (~arguments.server /\ ~arguments.client) =>
          /\ TopLevel(fs) = TopLevel(fs0)
          /\ \A p \in TopLevel(fs) : fs[p] = fs0[p]

\* a completed Client run that fetched the installer and did not run it
C10_Witness ==
    /\ pc = "done" /\ arguments.client
    /\ \E k \in Ops("write") : log[k].at = ForgeInstaller
    /\ Ops("call") = {}

-----------------------------------------------------------------------------
(* C11 *)

Completed == \E k \in Ops("print") : log[k].info = "Modpack imported"

\* C11 as stated: when the installer process has ended with a status other
\* than 0, the run is aborted, no installer output has been renamed and the
\* completion message has not been printed.
C11_NonZeroExitAborts ==
    \A k \in Ops("call") :
        log[k].info # "0" =>
            /\ pc = "aborted"
            /\ Ops("rename") = {}
            /\ ~Completed

-----------------------------------------------------------------------------
(* C12 *)

\* the entries of mods/ that a step deletes
Deleted == {p \in DOMAIN fs \ DOMAIN fs' : p[1] = "mods"}

DesiredFilenames ==
    {generate_mod_filename(m) : m \in SeqRange(SelectSeq(modpack.mods, Desired))}

\* C12: every entry a step deletes from mods/ is not a directory and its
\* name is not the derived filename of a mod desired for the active role, the
\* removals the log records are exactly these deletions, and with the
\* preserve flag nothing is deleted.
C12_OnlyObsoleteFilesDeleted ==
    [][/\ \A p \in Deleted :
             /\ fs[p].type # "dir"
             /\ p[2] \notin DesiredFilenames
             /\ ~arguments.preserve
       /\ Deleted = {NewEvents[k].at : k \in NewOps("remove")}]_vars

\* a run whose prune has deleted an obsolete file
C12_Witness ==
    /\ pc = "sync" /\ ~arguments.preserve
    /\ \E k \in Ops("remove") :
          /\ log[k].at \in DOMAIN fs0 /\ fs0[log[k].at].type = "file"
          /\ log[k].at \notin DOMAIN fs
          /\ log[k].at[2] \notin DesiredFilenames

-----------------------------------------------------------------------------
(* C13 *)

Calls == Ops("download_file")
\* the position of a call of download_file among the calls of the run
Rank(c) == Cardinality({d \in Calls : d <= c})

\* C13: nothing is done before the filter; every removal of the prune comes
\* before the first call of download_file; the k-th call is the one for the
\* k-th desired mod, and no call follows a transfer that raised; the
\* installer is synchronized only as the call after the last mod's, run only
\* after that, its output renamed only after it has run, and the completion
\* message is the last thing a run does.
C13_PhaseOrder ==
    /\ pc = "start" => log = <<>>
    /\ \A r \in Ops("remove") : \A c \in Calls : r < c
    /\ \A c \in Calls :
          IF log[c].at = ForgeInstaller
          THEN Rank(c) = Len(mods) + 1
          ELSE /\ Rank(c) <= Len(mods)
               /\ log[c] = CallEvent(mods[Rank(c)].source,
                                     ModPath(generate_mod_filename(mods[Rank(c)])),
                                     mods[Rank(c)].digest)
    /\ \A g \in Ops("get") :
          log[g].info \in {"ConnectionError", "HTTPError"} => \A c \in Calls : c < g
    /\ \A k \in Ops("call") : \E c \in Calls : c < k /\ log[c].at = ForgeInstaller
    /\ \A k \in Ops("rename") : \E c \in Ops("call") : c < k
    /\ \A k \in Ops("print") :
          log[k].info = "Modpack imported" => (k = Len(log) /\ pc = "done")

\* a completed Server run that pruned, synchronized two mods and the
\* installer, ran the installer and renamed its output
C13_Witness ==
    /\ pc = "done"
    /\ Ops("remove") # {}
    /\ Len(mods) = 2 /\ Cardinality(Calls) = 3
    /\ Ops("call") # {} /\ Ops("rename") # {}

-----------------------------------------------------------------------------
(* generate_mod_filename on its own: the function applied to one entry *)

\* entries over every shape of (source, name, version, disabled), the empty
\* string and a name equal to a fingerprint included, with and without digest
FilenameInputs ==
    {Spec_(source, name, version, disabled, digest, FALSE, FALSE) :
        source \in {None, "", "http://x/a.jar", "http://x/b.jar"},
        name \in {None, "", "Foo", "8bd9c5"},
        version \in {None, "", "1.0"},
        disabled \in BOOLEAN,
        digest \in {None, sha256("b1")}}

InitFn ==
    /\ modpack \in [forge : {Spec_(None, None, None, FALSE, None, FALSE, FALSE)},
                     mods : [1..1 -> FilenameInputs]]
    /\ arguments = [server |-> FALSE, client |-> FALSE, preserve |-> TRUE]
    /\ fs = [p \in {} |-> Dir]
    /\ mods = modpack.mods
    /\ i = 1
    /\ pc = "filename"
    /\ error = None
    /\ log = <<>>
    /\ fs0 = fs
    /\ run = 1

\* line 151: os.path.join('mods', generate_mod_filename(mod))
ApplyFilename ==
    /\ pc = "filename"
    /\ pc' = "named"
    /\ log' = <<Event("filename", ModPath(generate_mod_filename(mods[i])), "")>>
    /\ UNCHANGED <<modpack, arguments, fs, mods, i, error, fs0, run>>

NextFn == ApplyFilename

SpecFn == InitFn /\ [][NextFn]_vars

-----------------------------------------------------------------------------
(* C14 *)

\* the filename as the sentence builds it: the fingerprint of the source (the
\* placeholder token without a source), after the name and the version when
\* there are both, after the name alone when there is no version, alone when
\* there is no name; then .jar, then .disabled for a disabled entry.  A name
\* is supplied when the key is there, a source or a version when it is there
\* and not empty.
ClaimFingerprint(s) == IF Truthy(s.source) THEN Fingerprint(s.source) ELSE "<stub>"
ClaimStem(s) ==
    CASE s.name # None /\ Truthy(s.version) ->
            s.name \o "-" \o s.version \o "-" \o ClaimFingerprint(s)
      [] s.name # None /\ ~Truthy(s.version) -> s.name \o "-" \o ClaimFingerprint(s)
      [] OTHER -> ClaimFingerprint(s)
ClaimFilename(s) == ClaimStem(s) \o ".jar" \o (IF s.disabled THEN ".disabled" ELSE "")

\* C14: the filename generate_mod_filename returns for an entry is the one
\* the sentence builds from its source, name, version and disabled flag.
C14_FilenameShape ==
    pc = "named" => log[1].at = ModPath(ClaimFilename(mods[1]))

\* a disabled entry with source, name and version whose filename was derived
C14_Witness ==
    /\ pc = "named"
    /\ Truthy(mods[1].source) /\ mods[1].name = "Foo" /\ Truthy(mods[1].version)
    /\ mods[1].disabled
    /\ log[1].at = ModPath("Foo-1.0-8bd9c5.jar.disabled")

-----------------------------------------------------------------------------
(* C15 *)

ModsPart(f) == [p \in {q \in DOMAIN f : q[1] = "mods"} |-> f[p]]

\* C15: in a run that follows a completed run with the same manifest and
\* command line, no transfer is started for a mod, nothing is removed from
\* mods/, and mods/ holds the entries and bytes the run found.
C15_SecondRunConverged ==
    run > 1 =>
        /\ \A g \in Ops("get") : CallOf(g).at[1] # "mods"
        /\ Ops("remove") = {}
        /\ ModsPart(fs) = ModsPart(fs0)

\* a second pruning run that completed after validating, in place, a mod
\* file the first run had left
C15_Witness ==
    /\ run = 2 /\ pc = "done" /\ ~arguments.preserve
    /\ \E k \in Ops("read") : log[k].at[1] = "mods"

-----------------------------------------------------------------------------
(* The script under the interpreter: a statement that can run does run, and
   requests.get and subprocess.call return.  Whether the script is invoked
   again is up to the user. *)

RunStep ==
    \/ LoadAndFilter
    \/ Prune
    \/ SyncMod
    \/ SyncForge
    \/ Install
    \/ RenameOutput
    \/ Finish

LiveSpec == Spec /\ WF_vars(RunStep)

-----------------------------------------------------------------------------
(* C16 *)

\* the transfers started by the call of download_file at position c of the log
GetsOf(c) == {g \in Ops("get") : c < g /\ \A d \in Calls : d <= c \/ g < d}

\* C16: every run reaches "done" or "aborted"; an aborted run does nothing
\* more; a run calls download_file at most once for each position of the
\* desired mod list and at most once for the installer, and a call starts
\* at most one transfer.
C16_TerminatesWithoutRetry ==
    /\ (pc = "start") ~> (pc \in {"done", "aborted"})
    /\ [][pc = "aborted" => UNCHANGED vars]_vars
    /\ [](/\ Cardinality({c \in Calls : log[c].at[1] = "mods"}) <= Len(mods)
          /\ Cardinality({c \in Calls : log[c].at = ForgeInstaller}) <= 1
          /\ \A c \in Calls : Cardinality(GetsOf(c)) <= 1)

\* a run that was aborted by a failed transfer for its second mod, after one
\* transfer for the first
C16_Witness ==
    /\ pc = "aborted" /\ error = "ConnectionError"
    /\ Cardinality(Calls) = 2 /\ Cardinality(Ops("get")) = 2
    /\ \A c \in Calls : log[c].at[1] = "mods"

====
